---------------------------- MODULE Spec2Model ----------------------------
(***************************************************************************)
(* A model of datahugger's DatasetDownloader (src/datahugger/base.py):     *)
(* the lazily cached `_params` and `files` properties, the recursive       *)
(* listing engine `_get_files_recursive`, and the download orchestrator    *)
(* `_get` with `download_file`, `_unpack_single_folder` and                *)
(* `_check_checksums`.                                                     *)
(*                                                                         *)
(* Representation.  A Python str is a sequence of tokens, so "sub/a.csv"   *)
(* is <<"sub", "/", "a", ".csv">>; the empty str is <<"">>; None is the    *)
(* empty tuple; an int n is <<n>>.  A raised exception is the `err` field  *)
(* of an operator's result, "ok" when nothing was raised.                  *)
(***************************************************************************)
EXTENDS Integers, Sequences, FiniteSets, TLC

VARIABLES
    pages,      \* the remote API: page URL -> [records, hasNext, next]
    down,       \* page URLs that answer with a non-success status
    declared,   \* class attributes the repository descriptor declares
    resource,   \* self.resource, by how _parse_url treats it
    params,     \* self.params, the caller's override parameters
    opts,       \* the other constructor options
    attrs,      \* instance attributes set after construction: name -> value
    disk,       \* files under output_folder: relative path -> content
    rootExists, \* whether output_folder exists as a directory
    now,        \* time.time() in whole seconds
    parseCount, \* how many times _parse_url has run
    last,       \* the outcome of the latest call on the session
    runs        \* the outcomes of the download() calls so far

vars == <<pages, down, declared, resource, params, opts, attrs, disk,
          rootExists, now, parseCount, last, runs>>

-----------------------------------------------------------------------------
(* Bounds of the model.                                                    *)

MaxRecords == 2     \* records on one page
MaxCalls == 2       \* calls (property reads, downloads) on one session
MaxClock == 1       \* seconds the clock may advance

-----------------------------------------------------------------------------
(* Python values.                                                          *)

None == << >>
EmptyStr == <<"">>
Str(s) == <<s>>
IntV(n) == <<n>>

\* Python truthiness of a str-or-None value.
Truthy(v) == v # None /\ v # EmptyStr

Last(s) == s[Len(s)]

\* str.endswith(suffix) for a one-token suffix.
EndsWith(s, suffix) == Len(s) > 0 /\ Last(s) = suffix

\* The index of the last "/" of s, 0 when there is none.
LastSlash(s) ==
    LET idx == {i \in 1..Len(s) : s[i] = "/"}
    IN  IF idx = {} THEN 0 ELSE CHOOSE i \in idx : \A j \in idx : j <= i

\* os.path.basename
Basename(s) == SubSeq(s, LastSlash(s) + 1, Len(s))

-----------------------------------------------------------------------------
(* The repository descriptor and attribute extraction.  A record is the    *)
(* mapping from attribute to the value its JSONPath finds, None where the  *)
(* path finds nothing (_get_attr_attr swallows every exception).           *)

GetAttrAttr(record, attr) == record[attr]

GetAttrKind(record) ==
    IF "ATTR_KIND_JSONPATH" \notin declared THEN Str("file")
    ELSE GetAttrAttr(record, "kind")

GetAttrLink(record) ==
    IF GetAttrKind(record) = Str("folder")
    THEN IF "ATTR_FOLDER_LINK_JSONPATH" \notin declared THEN None
         ELSE GetAttrAttr(record, "link")
    ELSE IF "ATTR_FILE_LINK_JSONPATH" \notin declared THEN None
         ELSE GetAttrAttr(record, "link")

GetAttrName(record) ==
    IF "ATTR_NAME_JSONPATH" \notin declared THEN None
    ELSE GetAttrAttr(record, "name")

GetAttrSize(record) ==
    IF "ATTR_SIZE_JSONPATH" \notin declared THEN None
    ELSE GetAttrAttr(record, "size")

GetAttrHash(record) ==
    IF "ATTR_HASH_JSONPATH" \notin declared THEN None
    ELSE GetAttrAttr(record, "hash")

\* The algorithm a descriptor fixes for all of its records.
HashTypeValue == Str("sha256")

GetAttrHashType(record) ==
    IF "ATTR_HASH_TYPE_VALUE" \in declared THEN HashTypeValue
    ELSE IF "ATTR_HASH_TYPE_JSONPATH" \notin declared THEN None
    ELSE GetAttrAttr(record, "hash_type")

-----------------------------------------------------------------------------
(* _get_files_recursive.  The result carries the exception raised (err),   *)
(* the entries collected (result) and the page URLs fetched, in order.     *)

\* str(Path(folder_name, name)) for relative, normalised names.
PathJoin(folder_name, name) == folder_name \o <<"/">> \o name

\* requests.get(url) with raise_for_status() left out.
FetchErrUnchecked(url) ==
    IF url = None THEN "MissingSchema"
    ELSE IF url \notin DOMAIN pages THEN "HTTPError"
    ELSE "ok"

\* requests.get(url) followed by raise_for_status().
FetchErr(url) ==
    IF url = None THEN "MissingSchema"
    ELSE IF url \notin DOMAIN pages \/ url \in down THEN "HTTPError"
    ELSE "ok"

FileEntry(f, f_path) ==
    [link |-> GetAttrLink(f), name |-> f_path, size |-> GetAttrSize(f),
     hash |-> GetAttrHash(f), hash_type |-> GetAttrHashType(f)]

\* Line 338: jsonpath find(response)[0].value
NextUrl(response) ==
    IF response.hasNext THEN [err |-> "ok", value |-> response.next]
    ELSE [err |-> "IndexError", value |-> None]

RECURSIVE GetFilesRecursive(_, _)
RECURSIVE LoopRecords(_, _, _, _)

\* The for loop of lines 312-334 from record i on; acc is the state so far.
LoopRecords(files_raw, i, folder_name, acc) ==
    IF acc.err # "ok" \/ i > Len(files_raw) THEN acc
    ELSE LET f == files_raw[i]
             name == GetAttrName(f)
         IN  IF folder_name # None /\ name = None
             THEN [acc EXCEPT !.err = "TypeError"]
             ELSE LET f_path == IF folder_name = None THEN name
                                ELSE PathJoin(folder_name, name)
                  IN  IF GetAttrKind(f) = Str("folder")
                      THEN LET sub == GetFilesRecursive(GetAttrLink(f), f_path)
                           IN  LoopRecords(files_raw, i + 1, folder_name,
                                   [err |-> sub.err,
                                    result |-> acc.result \o sub.result,
                                    fetched |-> acc.fetched \o sub.fetched])
                      ELSE LoopRecords(files_raw, i + 1, folder_name,
                               [acc EXCEPT !.result =
                                    Append(@, FileEntry(f, f_path))])

GetFilesRecursive(url, folder_name) ==
    IF FetchErr(url) # "ok"
    THEN [err |-> FetchErr(url), result |-> << >>, fetched |-> <<url>>]
    ELSE LET response == pages[url]
             body == LoopRecords(response.records, 1, folder_name,
                         [err |-> "ok", result |-> << >>, fetched |-> <<url>>])
         IN  IF body.err # "ok" \/ "PAGINATION_JSONPATH" \notin declared
             THEN body
             ELSE LET nxt == NextUrl(response)
                  IN  IF nxt.err # "ok" THEN [body EXCEPT !.err = nxt.err]
                      ELSE IF ~Truthy(nxt.value) THEN body
                      ELSE LET rest == GetFilesRecursive(nxt.value, folder_name)
                           IN  [err |-> rest.err,
                                result |-> body.result \o rest.result,
                                fetched |-> body.fetched \o rest.fetched]

-----------------------------------------------------------------------------
(* Instance attributes.  Inside the class body an identifier that starts   *)
(* with two underscores and does not end with two is name-mangled by the   *)
(* compiler; a name given to hasattr as a string literal is not.           *)

ClassName == "DatasetDownloader"

Mangle(ident) ==
    IF Len(ident) >= 2 /\ ident[1] = "__" /\ Last(ident) # "__"
    THEN <<"_", ClassName>> \o ident
    ELSE ident

\* hasattr(self, "<name>")
HasAttr(obj, name) == name \in DOMAIN obj

\* self.<ident> = value, written in the class body
SetAttr(obj, ident, value) ==
    [n \in DOMAIN obj \cup {Mangle(ident)} |->
        IF n = Mangle(ident) THEN value ELSE obj[n]]

\* self.<ident>, read in the class body
GetAttr(obj, ident) == obj[Mangle(ident)]

ParamsIdent == <<"__", "params">>
FilesIdent == <<"_files">>

-----------------------------------------------------------------------------
(* _parse_url and the _params property.                                    *)

\* _parse_url: a ValueError unless the resource is a URL REGEXP_ID matches.
ParseUrl(res) ==
    IF ~res.isUrl \/ ~res.matches THEN [err |-> "ValueError", value |-> None]
    ELSE [err |-> "ok", value |-> res.groups]

\* dict.update: the keys of `other` overwrite those of `d`.
DictUpdate(d, other) == other @@ d

\* The _params property on instance dict obj: its value, the instance dict
\* afterwards and the number of _parse_url calls made.
ParamsProp(obj) ==
    IF HasAttr(obj, ParamsIdent)
    THEN [err |-> "ok", value |-> GetAttr(obj, ParamsIdent), attrs |-> obj,
          parsed |-> 0]
    ELSE LET url_params == ParseUrl(resource)
         IN  IF url_params.err # "ok"
             THEN [err |-> url_params.err, value |-> None, attrs |-> obj,
                   parsed |-> 1]
             ELSE LET new_params == IF DOMAIN params # {}
                                    THEN DictUpdate(params, url_params.value)
                                    ELSE url_params.value
                  IN  [err |-> "ok", value |-> new_params,
                       attrs |-> SetAttr(obj, ParamsIdent, new_params),
                       parsed |-> 1]

-----------------------------------------------------------------------------
(* The files property.                                                     *)

\* API_URL_META rendered with the parameters: the first page of the listing.
RootUrl == <<"p", "1">>

FilesProp(obj) ==
    IF HasAttr(obj, FilesIdent)
    THEN [err |-> "ok", value |-> GetAttr(obj, FilesIdent), attrs |-> obj,
          parsed |-> 0, fetched |-> << >>]
    ELSE LET p == ParamsProp(obj)
         IN  IF p.err # "ok"
             THEN [err |-> p.err, value |-> None, attrs |-> p.attrs,
                   parsed |-> p.parsed, fetched |-> << >>]
             ELSE LET t == GetFilesRecursive(RootUrl, None)
                  IN  IF t.err # "ok"
                      THEN [err |-> t.err, value |-> None, attrs |-> p.attrs,
                            parsed |-> p.parsed, fetched |-> t.fetched]
                      ELSE [err |-> "ok", value |-> t.result,
                            attrs |-> SetAttr(p.attrs, FilesIdent, t.result),
                            parsed |-> p.parsed, fetched |-> t.fetched]

-----------------------------------------------------------------------------
(* Regular expressions.  A pattern is a sequence of atoms: a token that    *)
(* matches itself, or "$", which matches at the end of the string.         *)

RECURSIVE MatchHere(_, _, _, _)
\* Whether pattern[i..] matches string starting at position j.
MatchHere(pattern, i, string, j) ==
    IF i > Len(pattern) THEN TRUE
    ELSE IF pattern[i] = "$"
         THEN j = Len(string) + 1 /\ MatchHere(pattern, i + 1, string, j)
         ELSE /\ j <= Len(string)
              /\ string[j] = pattern[i]
              /\ MatchHere(pattern, i + 1, string, j + 1)

\* re.match: the pattern must match at the beginning of the string.
ReMatch(pattern, string) == MatchHere(pattern, 1, string, 1)

\* re.search: the pattern may match at any position.
ReSearch(pattern, string) ==
    \E j \in 1..(Len(string) + 1) : MatchHere(pattern, 1, string, j)

-----------------------------------------------------------------------------
(* The remote file store: what a GET of a file link answers.               *)

PlainLink == <<"u", "1">>
OtherLink == <<"u", "2">>
ZipLink == <<"u", "3", ".zip">>
BlobLink == <<"u", "4">>        \* serves a zip archive, no .zip suffix

ZipMembers ==
    << [filename |-> <<"dir", "/">>, content |-> None],
       [filename |-> <<"dir", "/", "x", ".txt">>, content |-> <<"bytes", "x">>],
       [filename |-> <<"y", ".txt">>, content |-> <<"bytes", "y">>] >>

Blobs ==
    (PlainLink :> [zip |-> FALSE, content |-> <<"bytes", "1">>]) @@
    (OtherLink :> [zip |-> FALSE, content |-> <<"bytes", "2">>]) @@
    (ZipLink :> [zip |-> TRUE, content |-> <<"bytes", "3">>]) @@
    (BlobLink :> [zip |-> TRUE, content |-> <<"bytes", "4">>])

\* requests.get(file_link) followed by raise_for_status().
FileFetchErr(file_link) ==
    IF file_link = None THEN "MissingSchema"
    ELSE IF file_link \notin DOMAIN Blobs THEN "HTTPError"
    ELSE "ok"

-----------------------------------------------------------------------------
(* download_file.  st is the run so far: the exception raised, the         *)
(* destination, the status reported per entry, the links fetched and the   *)
(* paths written, in order.                                                *)

Report(st, file_name, status) ==
    [st EXCEPT !.statuses = Append(@, [name |-> file_name, status |-> status,
                                       nfetched |-> Len(st.fetched),
                                       nwritten |-> Len(st.written)])]

\* Lines 153-157 with > for >=.
SizeSkipAbove(file_size) ==
    /\ file_size # None
    /\ opts.max_file_size # None
    /\ file_size[1] > opts.max_file_size[1]

\* Lines 153-157
SizeSkip(file_size) ==
    /\ file_size # None
    /\ opts.max_file_size # None
    /\ file_size[1] >= opts.max_file_size[1]

\* Line 163: re.match raises TypeError on a name that is None.
FilterCheck(file_name) ==
    IF ~Truthy(opts.filter_files) THEN [err |-> "ok", skip |-> FALSE]
    ELSE IF file_name = None THEN [err |-> "TypeError", skip |-> FALSE]
    ELSE [err |-> "ok", skip |-> ~ReMatch(opts.filter_files, file_name)]

\* Lines 177-194 with the existing-file check left out.
WriteFileAlways(st, file_name, content) ==
    Report([st EXCEPT !.rootExists = TRUE,
                      !.disk = (file_name :> content) @@ @,
                      !.written = Append(@, file_name)],
           file_name, "WRITTEN")

\* Lines 177-194: the existing-file check and the write.
WriteFile(st, file_name, content) ==
    IF ~opts.force_download /\ file_name \in DOMAIN st.disk
    THEN Report([st EXCEPT !.rootExists = TRUE], file_name, "EXISTS")
    ELSE Report([st EXCEPT !.rootExists = TRUE,
                           !.disk = (file_name :> content) @@ @,
                           !.written = Append(@, file_name)],
                file_name, "WRITTEN")

DownloadFile(st, file_link, file_name, file_size) ==
    IF SizeSkip(file_size) THEN Report(st, file_name, "SKIPPED")
    ELSE IF FilterCheck(file_name).err # "ok"
         THEN [st EXCEPT !.err = FilterCheck(file_name).err]
    ELSE IF FilterCheck(file_name).skip THEN Report(st, file_name, "SKIPPED")
    ELSE IF opts.print_only THEN Report(st, file_name, "COMPLETE")
    ELSE LET got == [st EXCEPT !.fetched = Append(@, file_link)]
         IN  IF FileFetchErr(file_link) # "ok"
             THEN [got EXCEPT !.err = FileFetchErr(file_link)]
             ELSE IF file_name = None THEN [got EXCEPT !.err = "TypeError"]
             ELSE WriteFile(got, file_name, Blobs[file_link].content)

-----------------------------------------------------------------------------
(* _unpack_single_folder.                                                  *)

RECURSIVE ExtractMembers(_, _, _)
\* Lines 214-218: every member that is no directory, under its base name.
ExtractMembers(st, members, i) ==
    IF i > Len(members) THEN st
    ELSE IF Last(members[i].filename) = "/"
         THEN ExtractMembers(st, members, i + 1)
         ELSE ExtractMembers(
                  [st EXCEPT !.rootExists = TRUE,
                             !.disk = (Basename(members[i].filename)
                                          :> members[i].content) @@ @,
                             !.written = Append(@, Basename(members[i].filename))],
                  members, i + 1)

UnpackSingleFolder(st, zip_url) ==
    LET got == [st EXCEPT !.archives = Append(@, zip_url)]
    IN  IF FileFetchErr(zip_url) # "ok"
        THEN [got EXCEPT !.err = FileFetchErr(zip_url)]
        ELSE IF ~Blobs[zip_url].zip THEN [got EXCEPT !.err = "BadZipFile"]
        ELSE ExtractMembers(got, ZipMembers, 1)

-----------------------------------------------------------------------------
(* _check_checksums.                                                       *)

HashAlgos == {"md5", "sha1", "sha224", "sha256", "sha384", "sha512"}

\* hashlib.<alg>(content).hexdigest()
Digest(alg, content) == <<alg>> \o content

\* Lines 253-266
NewHash(hash_type, content) ==
    IF Len(hash_type) = 1 /\ hash_type[1] \in HashAlgos
    THEN Digest(hash_type[1], content)
    ELSE None

\* Line 243: the entries compared with the file found by os.walk.
FileComp(files_info, file) ==
    {i \in 1..Len(files_info) : files_info[i].name = file}

Min(S) == CHOOSE i \in S : \A j \in S : i <= j

Depth(path) == Cardinality({i \in 1..Len(path) : path[i] = "/"})

\* os.walk is top-down: of the files with one base name the deepest is
\* visited last, and its record is the one the dict keeps.
Walked(d, file) ==
    LET same == {q \in DOMAIN d : Basename(q) = file}
    IN  CHOOSE q \in same : \A r \in same : Depth(r) <= Depth(q)

\* Lines 235-272: the checksums dict over the files present in d.
Checksums(d, files_info) ==
    LET Recorded(q) ==
            LET file_comp == FileComp(files_info, Basename(q))
            IN  /\ file_comp # {}
                /\ files_info[Min(file_comp)].hash # None
                /\ files_info[Min(file_comp)].hash_type # None
        keys == {Basename(q) : q \in {r \in DOMAIN d : Recorded(r)}}
    IN  [file \in keys |->
            LET q == Walked(d, file)
                e == files_info[Min(FileComp(files_info, file))]
            IN  e.hash = NewHash(e.hash_type, d[q])]

\* generated/checksums<timestamp>.json
ChecksumPath == <<"generated", "/", "checksums", ToString(now), ".json">>

\* Every exception is caught (line 284): without the output folder os.mkdir
\* fails and nothing is written.
CheckChecksums(st, files_info) ==
    IF ~st.rootExists THEN st
    ELSE LET checksums == Checksums(st.disk, files_info)
         IN  [st EXCEPT !.disk = (ChecksumPath :> <<"json", checksums>>) @@ @,
                        !.written = Append(@, ChecksumPath),
                        !.reports = Append(@, checksums)]

-----------------------------------------------------------------------------
(* _get: the download run over the listing `files`.                        *)

RECURSIVE LoopFiles(_, _, _)
\* Lines 400-409
LoopFiles(st, files, i) ==
    IF st.err # "ok" \/ i > Len(files) THEN st
    ELSE LoopFiles(DownloadFile(st, files[i].link, files[i].name, files[i].size),
                   files, i + 1)

\* Lines 388-395: None has no endswith.
SingleZip(files) ==
    IF Len(files) # 1 THEN [err |-> "ok", value |-> FALSE]
    ELSE IF files[1].link = None THEN [err |-> "AttributeError", value |-> FALSE]
    ELSE IF EndsWith(files[1].link, ".zip")
         THEN [err |-> "ok", value |-> opts.unzip]
    ELSE IF files[1].name = None THEN [err |-> "AttributeError", value |-> FALSE]
    ELSE [err |-> "ok", value |-> EndsWith(files[1].name, ".zip") /\ opts.unzip]

NewRun(files) ==
    [err |-> "ok", disk |-> disk, rootExists |-> rootExists, files |-> files,
     listed |-> TRUE, unpacked |-> FALSE, statuses |-> << >>, fetched |-> << >>,
     archives |-> << >>, written |-> << >>, reports |-> << >>,
     before |-> disk]

Get(files) ==
    LET st == NewRun(files)
        zip == SingleZip(files)
    IN  IF zip.err # "ok" THEN [st EXCEPT !.err = zip.err]
        ELSE IF zip.value
             THEN UnpackSingleFolder([st EXCEPT !.unpacked = TRUE], files[1].link)
        ELSE LET done == LoopFiles(st, files, 1)
             IN  IF done.err = "ok" /\ opts.checksum
                 THEN CheckChecksums(done, files)
                 ELSE done

-----------------------------------------------------------------------------
(* The operations of a session and of its environment.                     *)

Outcome(call, r, fetched) ==
    [call |-> call, n |-> last.n + 1, err |-> r.err, value |-> r.value,
     fetched |-> fetched, down |-> down, prev |-> last.err]

\* A read of the _params property.
ReadParams ==
    /\ last.n < MaxCalls
    /\ LET p == ParamsProp(attrs)
       IN  /\ attrs' = p.attrs
           /\ parseCount' = parseCount + p.parsed
           /\ last' = Outcome("params", p, << >>)
    /\ UNCHANGED <<pages, down, declared, resource, params, opts, disk,
                   rootExists, now, runs>>

\* A read of the files property.
ReadFiles ==
    /\ last.n < MaxCalls
    /\ LET f == FilesProp(attrs)
       IN  /\ attrs' = f.attrs
           /\ parseCount' = parseCount + f.parsed
           /\ last' = Outcome("files", f, f.fetched)
    /\ UNCHANGED <<pages, down, declared, resource, params, opts, disk,
                   rootExists, now, runs>>

\* download(output_folder): _get on the listing the files property gives.
Download ==
    /\ last.n < MaxCalls
    /\ LET f == FilesProp(attrs)
           run == IF f.err # "ok"
                  THEN [NewRun(<< >>) EXCEPT !.err = f.err, !.listed = FALSE]
                  ELSE Get(f.value)
       IN  /\ attrs' = f.attrs
           /\ parseCount' = parseCount + f.parsed
           /\ disk' = run.disk
           /\ rootExists' = run.rootExists
           /\ runs' = Append(runs, run)
           /\ last' = [Outcome("download", f, f.fetched) EXCEPT
                           !.err = run.err, !.value = None]
    /\ UNCHANGED <<pages, down, declared, resource, params, opts, now>>

\* The remote answers every page again.
RemoteUp ==
    /\ down # {}
    /\ down' = {}
    /\ UNCHANGED <<pages, declared, resource, params, opts, attrs, disk,
                   rootExists, now, parseCount, last, runs>>

\* A second passes.
Tick ==
    /\ now < MaxClock
    /\ now' = now + 1
    /\ UNCHANGED <<pages, down, declared, resource, params, opts, attrs, disk,
                   rootExists, parseCount, last, runs>>

\* Someone else overwrites a downloaded file.
Corrupt ==
    /\ \E q \in DOMAIN disk :
          /\ disk[q] # <<"corrupt">>
          /\ q[1] # "generated"
          /\ disk' = [disk EXCEPT ![q] = <<"corrupt">>]
    /\ UNCHANGED <<pages, down, declared, resource, params, opts, attrs,
                   rootExists, now, parseCount, last, runs>>

-----------------------------------------------------------------------------
(* Initial states: a fresh session (lines 50-71) facing a remote.          *)

AllDeclared ==
    {"ATTR_KIND_JSONPATH", "ATTR_NAME_JSONPATH", "ATTR_FILE_LINK_JSONPATH",
     "ATTR_FOLDER_LINK_JSONPATH", "ATTR_SIZE_JSONPATH", "ATTR_HASH_JSONPATH",
     "ATTR_HASH_TYPE_JSONPATH", "PAGINATION_JSONPATH"}

\* The constructor's defaults (lines 53-60).
DefaultOpts ==
    [max_file_size |-> None, filter_files |-> None, force_download |-> FALSE,
     unzip |-> TRUE, checksum |-> FALSE, print_only |-> FALSE]

ValidResource ==
    [isUrl |-> TRUE, matches |-> TRUE, groups |-> [record_id |-> "r1"]]

NoCall ==
    [call |-> "none", n |-> 0, err |-> "ok", value |-> None,
     fetched |-> << >>, down |-> {}, prev |-> "ok"]

\* What every fresh session shares.
Fresh ==
    /\ attrs = << >>
    /\ disk = << >>
    /\ now = 0
    /\ parseCount = 0
    /\ last = NoCall
    /\ runs = << >>

PageIds == {1, 2, 3}
PageUrl(k) == <<"p", ToString(k)>>

FileRecord(name, link, size, hash, hash_type) ==
    [kind |-> Str("file"), name |-> name, link |-> link, size |-> size,
     hash |-> hash, hash_type |-> hash_type]

FolderRecord(name, link) ==
    [kind |-> Str("folder"), name |-> name, link |-> link, size |-> None,
     hash |-> None, hash_type |-> None]

\* The record in slot j of page k: a file (target 0) or a folder whose
\* sub-listing is page `target`.
SlotRecord(j, target) ==
    IF target = 0
    THEN FileRecord(<<"f", ToString(j)>>, PlainLink, None, None, None)
    ELSE FolderRecord(<<"d", ToString(j)>>, PageUrl(target))

Later(k) == {t \in PageIds : t > k}

\* The pages a remote may serve: links lead to later pages only, so the
\* remote is finite and acyclic.  `ending` is how a last page says so.
PageChoices(k, ending) ==
    {[records |-> [j \in DOMAIN slots |-> SlotRecord(j, slots[j])],
      hasNext |-> (nxt # 0 \/ ending # "missing"),
      next |-> IF nxt # 0 THEN PageUrl(nxt)
               ELSE IF ending = "empty" THEN EmptyStr ELSE None] :
        slots \in UNION {[1..m -> {0} \cup Later(k)] : m \in 0..MaxRecords},
        nxt \in {0} \cup Later(k)}

Remotes(ending) ==
    {[u \in {PageUrl(k) : k \in PageIds} |->
        IF u = PageUrl(1) THEN p1 ELSE IF u = PageUrl(2) THEN p2 ELSE p3] :
        p1 \in PageChoices(1, ending), p2 \in PageChoices(2, ending),
        p3 \in PageChoices(3, ending)}

\* The links of page u of remote r, one per occurrence.
FolderSlots(r, u) ==
    {j \in DOMAIN r[u].records : r[u].records[j].kind = Str("folder")}

LinksTo(r, u, v) ==
    Cardinality({j \in FolderSlots(r, u) : r[u].records[j].link = v})
    + (IF r[u].next = v THEN 1 ELSE 0)

RECURSIVE Reachable(_, _)
Reachable(r, S) ==
    LET T == S \cup {v \in DOMAIN r : \E u \in S : LinksTo(r, u, v) > 0}
    IN  IF T = S THEN S ELSE Reachable(r, T)

RECURSIVE Sum(_, _)
Sum(f, S) ==
    IF S = {} THEN 0
    ELSE LET x == CHOOSE y \in S : TRUE IN f[x] + Sum(f, S \ {x})

\* A remote tree: every page but the first is linked from exactly one place
\* of a reachable page, or is not part of the listing and empty.
IsTree(r) ==
    LET reach == Reachable(r, {RootUrl})
    IN  \A v \in DOMAIN r \ {RootUrl} :
            IF v \in reach
            THEN Sum([u \in reach |-> LinksTo(r, u, v)], reach) = 1
            ELSE r[v].records = << >> /\ ~Truthy(r[v].next)

InitTraverse ==
    /\ Fresh
    /\ \E ending \in {"missing", "null", "empty"} :
          /\ pages \in {r \in Remotes(ending) : IsTree(r)}
          /\ declared \in {AllDeclared} \cup
                (IF ending = "missing"
                 THEN {AllDeclared \ {"PAGINATION_JSONPATH"}} ELSE {})
    /\ down \in {{}} \cup {{u} : u \in DOMAIN pages}
    /\ resource = ValidResource
    /\ params = None
    /\ opts = DefaultOpts
    /\ rootExists = FALSE

NextTraverse == ReadFiles \/ Download \/ RemoteUp

SpecTraverse == InitTraverse /\ [][NextTraverse]_vars

-----------------------------------------------------------------------------
(* The listing a remote tree stands for, read off the tree itself.         *)

Paginated == "PAGINATION_JSONPATH" \in declared

RECURSIVE Flatten(_, _)
RECURSIVE FlattenRecords(_, _, _)

\* Record i of `records` and those after it, under `prefix`.
FlattenRecords(records, i, prefix) ==
    IF i > Len(records) THEN << >>
    ELSE LET rec == records[i]
             name == IF prefix = None THEN rec.name
                     ELSE prefix \o <<"/">> \o rec.name
             here == IF rec.kind = Str("folder") THEN Flatten(rec.link, name)
                     ELSE << [link |-> rec.link, name |-> name,
                              size |-> rec.size, hash |-> rec.hash,
                              hash_type |-> rec.hash_type] >>
         IN  here \o FlattenRecords(records, i + 1, prefix)

\* The entries of page `url` and of the pages after it, under `prefix`.
Flatten(url, prefix) ==
    FlattenRecords(pages[url].records, 1, prefix)
    \o (IF Paginated /\ pages[url].next \in DOMAIN pages
        THEN Flatten(pages[url].next, prefix) ELSE << >>)

RECURSIVE Visits(_)
RECURSIVE VisitsRecords(_, _)

VisitsRecords(records, i) ==
    IF i > Len(records) THEN << >>
    ELSE (IF records[i].kind = Str("folder") THEN Visits(records[i].link)
          ELSE << >>) \o VisitsRecords(records, i + 1)

\* The pages a traversal from `url` has to fetch, in order.
Visits(url) ==
    <<url>> \o VisitsRecords(pages[url].records, 1)
    \o (IF Paginated /\ pages[url].next \in DOMAIN pages
        THEN Visits(pages[url].next) ELSE << >>)

Range(f) == {f[i] : i \in DOMAIN f}

ListingCall == last.call \in {"files", "download"}

\* Every page the listing needs answers.
AllUp == last.down \cap Range(Visits(RootUrl)) = {}

(* C1: on a finite acyclic remote tree where every fetch succeeds, the     *)
(* files property returns exactly the entries of the reachable file        *)
(* records: in page order, a folder's entries in the folder's place, the   *)
(* next page's entries after the page's own, each named by its folder      *)
(* prefix joined with its own name.                                        *)
C1_FlatListing ==
    (last.call = "files" /\ AllUp) =>
        (last.err = "ok" /\ last.value = Flatten(RootUrl, None))

\* The same where no page leaves its next-page field out.
FlatListingWhenLinkPresent ==
    (last.call = "files" /\ AllUp
       /\ (Paginated => \A u \in DOMAIN pages : pages[u].hasNext)) =>
        (last.err = "ok" /\ last.value = Flatten(RootUrl, None))

FlatListingReached ==
    /\ last.call = "files" /\ last.err = "ok" /\ Paginated
    /\ Len(last.value) >= 3
    /\ Len(last.fetched) = 3

(* C2: a non-success answer to any page or folder sub-listing fetch fails  *)
(* the whole listing: the caller gets an error and no list, no list is     *)
(* cached on the session (the next read starts the traversal again), and   *)
(* download starts no file download.                                       *)
C2_FailFast ==
    /\ (ListingCall /\ \E i \in DOMAIN last.fetched :
                           last.fetched[i] \in last.down) =>
          /\ last.err = "HTTPError"
          /\ last.value = None
          /\ ~HasAttr(attrs, FilesIdent)
          /\ last.call = "download" =>
                LET run == runs[Len(runs)]
                IN  /\ run.fetched = << >> /\ run.archives = << >>
                    /\ run.written = << >> /\ run.disk = run.before
    /\ (ListingCall /\ last.prev = "HTTPError") =>
          (last.fetched # << >> /\ last.fetched[1] = RootUrl)

\* A folder's sub-listing fails after a file record was collected, in a
\* download, and the call before had failed the same way.
C2_Witness ==
    /\ last.call = "download" /\ last.err = "HTTPError"
    /\ last.prev = "HTTPError"
    /\ Len(last.fetched) >= 2
    /\ Len(pages[RootUrl].records) = 2
    /\ pages[RootUrl].records[1].kind = Str("file")
    /\ pages[RootUrl].records[2].kind = Str("folder")

(* C10: with a pagination path declared, a page that carries no next-page  *)
(* link (the field missing, null or empty) ends the traversal of that page *)
(* normally: its entries are returned, no further page is fetched and no   *)
(* error is raised.                                                        *)
C10_NoNextLinkEndsPage ==
    (ListingCall /\ Paginated /\ AllUp /\ last.fetched # << >>) =>
        /\ last.err # "IndexError"
        /\ last.fetched = Visits(RootUrl)

-----------------------------------------------------------------------------
(* Sessions for the _params property.                                      *)

Resources ==
    {ValidResource,
     [isUrl |-> TRUE, matches |-> FALSE, groups |-> << >>],
     [isUrl |-> FALSE, matches |-> FALSE, groups |-> << >>]}

ParamChoices ==
    {None, [version |-> "v1"], [record_id |-> "other", version |-> "v1"]}

OneFile ==
    [records |-> << FileRecord(<<"a", ".csv">>, PlainLink, None, None, None) >>,
     hasNext |-> FALSE, next |-> None]

InitParams ==
    /\ Fresh
    /\ pages = (RootUrl :> OneFile)
    /\ down \in {{}, {RootUrl}}
    /\ declared = AllDeclared \ {"ATTR_KIND_JSONPATH", "PAGINATION_JSONPATH"}
    /\ resource \in Resources
    /\ params \in ParamChoices
    /\ opts = DefaultOpts
    /\ rootExists = FALSE

NextParams == ReadParams \/ ReadFiles \/ Download \/ RemoteUp

SpecParams == InitParams /\ [][NextParams]_vars

(* C9: within one session the parameter set is computed at most once:      *)
(* after the first successful read of _params every later read returns the *)
(* cached value without parsing the resource URL or merging the caller's   *)
(* override parameters again.                                              *)
C9_ParamsComputedOnce ==
    resource = ValidResource => parseCount <= 1

\* What the cache was written for: the value read does not change.
ParamsValueStable ==
    (last.call = "params" /\ last.err = "ok") =>
        /\ last.value = DictUpdate(params, ValidResource.groups)
        /\ last.value.record_id = "r1"

ParamsReadTwice ==
    /\ last.call = "params" /\ last.err = "ok" /\ last.prev = "ok"
    /\ last.n = 2
    /\ "version" \in DOMAIN last.value

-----------------------------------------------------------------------------
(* Sessions for the download run: a flat listing of up to MaxRecords       *)
(* entries on a single page, every combination of the options.            *)

SizeChoices == {None, IntV(999), IntV(1000)}

EntryChoices ==
    {FileRecord(<<"a", ".csv">>, PlainLink, sz, None, None) : sz \in SizeChoices}
    \cup {FileRecord(<<"sub", "/", "a", ".csv">>, OtherLink, sz, None, None) :
            sz \in SizeChoices}
    \cup {FileRecord(<<"data", ".zip">>, BlobLink, None, None, None)}
    \cup {FileRecord(<<"pkg">>, ZipLink, None, None, None)}

FlatPages(choices) ==
    {(RootUrl :> [records |-> recs, hasNext |-> FALSE, next |-> None]) :
        recs \in UNION {[1..m -> choices] : m \in 0..MaxRecords}}

OptionChoices ==
    [max_file_size : {None, IntV(1000)},
     filter_files : {None, <<".csv", "$">>, <<"a">>},
     force_download : BOOLEAN, unzip : BOOLEAN, checksum : BOOLEAN,
     print_only : BOOLEAN]

FlatDescriptor == AllDeclared \ {"ATTR_KIND_JSONPATH", "PAGINATION_JSONPATH"}

InitDownload ==
    /\ Fresh
    /\ pages \in FlatPages(EntryChoices)
    /\ down = {}
    /\ declared = FlatDescriptor
    /\ resource = ValidResource
    /\ params = None
    /\ opts \in OptionChoices
    /\ rootExists = FALSE

NextDownload == Download \/ ReadFiles

SpecDownload == InitDownload /\ [][NextDownload]_vars

-----------------------------------------------------------------------------
(* What a run did to entry i, read off the run's record.                   *)

Status(run, i) == run.statuses[i].status

FetchesFor(run, i) ==
    run.statuses[i].nfetched - (IF i = 1 THEN 0 ELSE run.statuses[i - 1].nfetched)

WritesFor(run, i) ==
    run.statuses[i].nwritten - (IF i = 1 THEN 0 ELSE run.statuses[i - 1].nwritten)

\* The entry's declared size is known and at or above the threshold.
AtOrAboveThreshold(e) ==
    /\ opts.max_file_size # None
    /\ e.size # None
    /\ ~(e.size[1] < opts.max_file_size[1])

FilterSet == opts.filter_files \notin {None, EmptyStr}

\* The destination path of entry i exists when the run comes to it.
ExistsBefore(run, i) ==
    \/ run.files[i].name \in DOMAIN run.before
    \/ \E j \in 1..(i - 1) :
          run.files[j].name = run.files[i].name /\ Status(run, j) = "WRITTEN"

IsReport(path) == path[1] = "generated"

(* C3: with printOnly enabled, whatever the listing and the other options, *)
(* a download run writes nothing under the destination and fetches no file *)
(* or archive, and every entry that is not size- or filter-skipped is      *)
(* reported "complete".                                                    *)
C3_DryRunWritesNothing ==
    \A k \in DOMAIN runs :
        LET run == runs[k]
        IN  (opts.print_only /\ run.listed) =>
                /\ run.written = << >> /\ run.disk = run.before
                /\ run.fetched = << >> /\ run.archives = << >>
                /\ Len(run.statuses) = Len(run.files)
                /\ \A i \in DOMAIN run.statuses :
                      /\ Status(run, i) \in {"SKIPPED", "COMPLETE"}
                      /\ Status(run, i) = "SKIPPED" =>
                            (AtOrAboveThreshold(run.files[i]) \/ FilterSet)

(* C4 as claimed, read in its own favour (no skip option, no dry run, no   *)
(* checksum report): with forceDownload=false a second run after a         *)
(* completed first run writes nothing, reports every entry "already        *)
(* exists" and leaves the destination as it was, for every listing.        *)
C4_RerunWritesNothing ==
    (/\ Len(runs) = 2 /\ runs[1].err = "ok"
     /\ ~opts.force_download /\ ~opts.print_only /\ ~opts.checksum
     /\ opts.max_file_size = None /\ ~FilterSet) =>
        /\ runs[2].written = << >>
        /\ runs[2].disk = runs[1].disk
        /\ Len(runs[2].statuses) = Len(runs[2].files)
        /\ \A i \in DOMAIN runs[2].statuses : Status(runs[2], i) = "EXISTS"

(* C4, amended: with forceDownload=false and a listing that is not handed  *)
(* to the archive unpacker (a single zip entry with unzip enabled), a      *)
(* second run after a completed first run writes no entry: every entry is  *)
(* reported "already exists" unless it is size- or filter-skipped          *)
(* ("skipped") or the run is a dry run ("complete"), no entry's file is    *)
(* created or overwritten, and the destination is as the first run left it *)
(* but for the checksum report a run with checksum enabled adds.           *)
C4_RerunWritesNoEntry ==
    (/\ Len(runs) = 2 /\ runs[1].err = "ok"
     /\ ~opts.force_download /\ ~runs[2].unpacked) =>
        /\ runs[2].err = "ok"
        /\ \A i \in DOMAIN runs[2].written : IsReport(runs[2].written[i])
        /\ ~opts.checksum => runs[2].disk = runs[1].disk
        /\ \A q \in DOMAIN runs[1].disk :
              ~IsReport(q) => (q \in DOMAIN runs[2].disk
                               /\ runs[2].disk[q] = runs[1].disk[q])
        /\ \A q \in DOMAIN runs[2].disk :
              ~IsReport(q) => q \in DOMAIN runs[1].disk
        /\ Len(runs[2].statuses) = Len(runs[2].files)
        /\ \A i \in DOMAIN runs[2].statuses :
              /\ WritesFor(runs[2], i) = 0
              /\ Status(runs[2], i) =
                    IF AtOrAboveThreshold(runs[2].files[i]) THEN "SKIPPED"
                    ELSE IF FilterSet /\ Status(runs[1], i) = "SKIPPED"
                         THEN "SKIPPED"
                    ELSE IF opts.print_only THEN "COMPLETE"
                    ELSE "EXISTS"

\* Two entries written by the first run and found by the second.
C4_Witness ==
    /\ Len(runs) = 2 /\ runs[1].err = "ok" /\ ~opts.force_download
    /\ Len(runs[2].statuses) = 2
    /\ runs[2].files[1].name # runs[2].files[2].name
    /\ \A i \in {1, 2} : Status(runs[1], i) = "WRITTEN"
    /\ \A i \in {1, 2} : Status(runs[2], i) = "EXISTS"

(* C5: with a filename filter configured an entry is fetched and written   *)
(* exactly when its name matches the pattern, which may match anywhere in  *)
(* the name (with "\.csv$", every name ending in .csv); every other entry  *)
(* is reported "skipped" and neither fetched nor written.                  *)
C5_FilterMatchesAnywhere ==
    \A k \in DOMAIN runs :
        LET run == runs[k]
        IN  (/\ FilterSet /\ ~run.unpacked /\ ~opts.print_only
             /\ opts.max_file_size = None /\ opts.force_download) =>
                \A i \in DOMAIN run.statuses :
                    IF ReSearch(opts.filter_files, run.files[i].name)
                    THEN /\ Status(run, i) = "WRITTEN"
                         /\ FetchesFor(run, i) = 1 /\ WritesFor(run, i) = 1
                    ELSE /\ Status(run, i) = "SKIPPED"
                         /\ FetchesFor(run, i) = 0 /\ WritesFor(run, i) = 0

\* The filter as the code applies it: the pattern must match at the start.
FilterMatchesAtStart ==
    \A k \in DOMAIN runs :
        LET run == runs[k]
        IN  (/\ FilterSet /\ ~run.unpacked /\ ~opts.print_only
             /\ opts.max_file_size = None /\ opts.force_download) =>
                \A i \in DOMAIN run.statuses :
                    IF MatchHere(opts.filter_files, 1, run.files[i].name, 1)
                    THEN Status(run, i) = "WRITTEN"
                    ELSE Status(run, i) = "SKIPPED"

(* C6: with maxFileSize configured download_file never fetches or writes   *)
(* an entry whose declared size is at or above the threshold (size equal   *)
(* to the threshold included), and the size check never skips an entry     *)
(* whose size is below it or unknown: that entry goes on to the filter,    *)
(* existing-file and dry-run checks and is written when none stops it.     *)
C6_SizeThreshold ==
    \A k \in DOMAIN runs :
        LET run == runs[k]
        IN  \A i \in DOMAIN run.statuses :
                LET e == run.files[i]
                    filtered == FilterSet /\ ~ReMatch(opts.filter_files, e.name)
                    kept == ~opts.force_download /\ ExistsBefore(run, i)
                IN  IF AtOrAboveThreshold(e)
                    THEN /\ Status(run, i) = "SKIPPED"
                         /\ FetchesFor(run, i) = 0 /\ WritesFor(run, i) = 0
                    ELSE /\ Status(run, i) = "SKIPPED" => filtered
                         /\ (~filtered /\ ~kept /\ ~opts.print_only) =>
                               /\ Status(run, i) = "WRITTEN"
                               /\ FetchesFor(run, i) = 1
                               /\ WritesFor(run, i) = 1
                               /\ e.name \in DOMAIN run.disk

\* One run skips an entry of exactly the threshold size and writes one of
\* unknown size and one below the threshold is written by a run as well.
C6_Witness ==
    /\ opts.max_file_size = IntV(1000)
    /\ Len(runs) >= 1
    /\ Len(runs[1].statuses) = 2
    /\ runs[1].files[1].size = IntV(1000) /\ Status(runs[1], 1) = "SKIPPED"
    /\ runs[1].files[2].size = None /\ Status(runs[1], 2) = "WRITTEN"

-----------------------------------------------------------------------------
(* Sessions for the checksum pass: entries that declare a right hash, a    *)
(* wrong hash, a hash without algorithm, an algorithm without hash, or     *)
(* nothing, at the top of the listing or under a folder prefix.            *)

HashChoices(link) ==
    {<<None, None>>,
     <<Digest("sha256", Blobs[link].content), Str("sha256")>>,
     <<Digest("sha256", <<"bytes", "0">>), Str("sha256")>>,
     <<Digest("sha256", Blobs[link].content), None>>,
     <<None, Str("sha256")>>}

HashedChoices ==
    {FileRecord(<<"a", ".csv">>, PlainLink, None, h[1], h[2]) :
        h \in HashChoices(PlainLink)}
    \cup {FileRecord(<<"sub", "/", "a", ".csv">>, OtherLink, None, h[1], h[2]) :
            h \in HashChoices(OtherLink)}

InitChecksum ==
    /\ Fresh
    /\ pages \in FlatPages(HashedChoices)
    /\ down = {}
    /\ declared \in {FlatDescriptor,
                     FlatDescriptor \cup {"ATTR_HASH_TYPE_VALUE"}}
    /\ resource = ValidResource
    /\ params = None
    /\ opts \in {[DefaultOpts EXCEPT !.checksum = TRUE, !.force_download = f] :
                    f \in BOOLEAN}
    /\ rootExists = FALSE

NextChecksum == Download \/ Corrupt \/ Tick

SpecChecksum == InitChecksum /\ [][NextChecksum]_vars

\* The entries whose name's final path segment is the base name of path q.
ByBasename(run, q) ==
    {i \in DOMAIN run.files : Basename(run.files[i].name) = Basename(q)}

\* The first such entry declares a hash and a hash algorithm.
Declares(run, q) ==
    /\ ByBasename(run, q) # {}
    /\ run.files[Min(ByBasename(run, q))].hash # None
    /\ run.files[Min(ByBasename(run, q))].hash_type # None

\* Whether the file at q has the digest that entry declares.
Matches(run, q) ==
    LET e == run.files[Min(ByBasename(run, q))]
    IN  Digest(e.hash_type[1], run.disk[q]) = e.hash

(* C7: the checksum pass matches every file under the output root to the   *)
(* first entry whose name's final path segment is the file's base name,    *)
(* folder prefix or not; the report holds fileName -> (digest = declared   *)
(* hash) when that entry declares a hash and an algorithm, and no record   *)
(* for a file without such an entry.                                       *)
C7_ChecksumByBasename ==
    \A k \in DOMAIN runs :
        LET run == runs[k]
        IN  run.reports # << >> =>
                \A q \in {r \in DOMAIN run.disk : ~IsReport(r)} :
                    LET same == {r \in DOMAIN run.disk :
                                    ~IsReport(r) /\ Basename(r) = Basename(q)}
                    IN  IF Declares(run, q)
                        THEN /\ Basename(q) \in DOMAIN run.reports[1]
                             /\ \E r \in same :
                                   run.reports[1][Basename(q)] = Matches(run, r)
                        ELSE Basename(q) \notin DOMAIN run.reports[1]

\* What the pass does: an entry is found by its whole name only.
ChecksumByWholeName ==
    \A k \in DOMAIN runs :
        LET run == runs[k]
        IN  run.reports # << >> =>
                \A q \in {r \in DOMAIN run.disk : ~IsReport(r)} :
                    LET whole == {i \in DOMAIN run.files :
                                     run.files[i].name = Basename(q)}
                    IN  Basename(q) \in DOMAIN run.reports[1] <=>
                            /\ whole # {}
                            /\ run.files[Min(whole)].hash # None
                            /\ run.files[Min(whole)].hash_type # None

\* A right hash is reported true, and false once the file is overwritten.
ChecksumDetectsCorruption ==
    /\ Len(runs) = 2
    /\ runs[1].reports # << >> /\ runs[2].reports # << >>
    /\ <<"a", ".csv">> \in DOMAIN runs[1].reports[1]
    /\ runs[1].reports[1][<<"a", ".csv">>] = TRUE
    /\ runs[2].reports[1][<<"a", ".csv">>] = FALSE

-----------------------------------------------------------------------------
(* Sessions whose records lack attributes: any of name, link, size and     *)
(* kind unknown, in a listing with one folder level.                       *)

UnknownChoices ==
    {[kind |-> k, name |-> n, link |-> l, size |-> sz, hash |-> None,
      hash_type |-> None] :
        k \in {Str("file"), None}, n \in {<<"a", ".csv">>, None},
        l \in {PlainLink, None}, sz \in {IntV(999), None}}
    \cup {FolderRecord(n, l) : n \in {<<"d">>, None}, l \in {PageUrl(2), None}}

SubPages ==
    {[records |-> recs, hasNext |-> FALSE, next |-> None] :
        recs \in {<< >>,
                  << FileRecord(<<"b", ".txt">>, OtherLink, None, None, None) >>,
                  << FileRecord(None, OtherLink, None, None, None) >>}}

InitUnknown ==
    /\ Fresh
    /\ pages \in {(RootUrl :> [records |-> recs, hasNext |-> FALSE,
                               next |-> None]) @@ (PageUrl(2) :> sub) :
                    recs \in UNION {[1..m -> UnknownChoices] :
                                       m \in 0..MaxRecords},
                    sub \in SubPages}
    /\ down = {}
    /\ declared = AllDeclared \ {"PAGINATION_JSONPATH"}
    /\ resource = ValidResource
    /\ params = None
    /\ opts \in {[DefaultOpts EXCEPT !.unzip = z, !.filter_files = f] :
                    z \in BOOLEAN, f \in {None, <<"a">>}}
    /\ rootExists = FALSE

NextUnknown == ReadFiles \/ Download

SpecUnknown == InitUnknown /\ [][NextUnknown]_vars

(* C8: an attribute that cannot be extracted resolves to "unknown" and     *)
(* never fails the listing or the download run with an error other than a  *)
(* remote fetch failure: the listing is still returned and the run still   *)
(* reaches a skip, unpack or download decision for every entry, the        *)
(* single-zip test on an unknown link and the folder-prefix join on an     *)
(* unknown name included.                                                  *)
C8_UnknownTolerated ==
    ListingCall =>
        /\ last.err \in {"ok", "HTTPError", "MissingSchema"}
        /\ (last.call = "files" /\ last.err = "ok") =>
              HasAttr(attrs, FilesIdent)

=============================================================================
